---------------------------- MODULE Spec2Model ----------------------------
(***************************************************************************)
(* Model of the chess-arena server: the constant-product prediction market *)
(* (server/src/market.ts), the game loop (server/src/game.ts) and the      *)
(* express handlers that drive them (server/src/index.ts).                 *)
(*                                                                         *)
(* Every pool, balance, amount and price of the program is a JavaScript    *)
(* `number`: an IEEE-754 binary float whose every operation rounds to the  *)
(* nearest representable value (ties to even), with signed zeros,          *)
(* subnormals, +-Infinity and NaN.  The model keeps that arithmetic and    *)
(* scales the format down: Prec significand bits instead of 53, and        *)
(* exponents of the last place in -ExpMag .. ExpMag instead of             *)
(* -1074 .. 971.                                                           *)
(***************************************************************************)
EXTENDS Integers, Sequences, FiniteSets, TLC

\* ------------------------------------------------------------------------
\* Bounds of the model
\* ------------------------------------------------------------------------

\* significand bits of the scaled-down float format
Prec == 3

\* the exponent of the unit in the last place ranges over -ExpMag .. ExpMag
ExpMag == 6

\* library calls / requests in one behaviour
MaxOps == 4

EMin == 0 - ExpMag

EMax == ExpMag

Pow2(n) == 2 ^ n

\* ------------------------------------------------------------------------
\* JavaScript numbers.  <<0, s, m, e>> is the finite value (-1)^s * m * 2^e
\* (m < 2^Prec; m >= 2^(Prec-1) unless e = EMin), <<1, s, 0, 0>> is
\* +-Infinity and <<2, 0, 0, 0>> is NaN.
\* ------------------------------------------------------------------------

NaN == <<2, 0, 0, 0>>

Inf(s) == <<1, s, 0, 0>>

Zero(s) == <<0, s, 0, EMin>>

IsNaN(x) == x[1] = 2

IsInf(x) == x[1] = 1

IsFinite(x) == x[1] = 0

IsZero(x) == x[1] = 0 /\ x[3] = 0

\* the one element of a singleton; the operators below bind their operands
\* through it, so that each operand is computed once
The(S) == CHOOSE v \in S : TRUE

\* n/d * 2^e rewritten, value unchanged, so that the integer part of n/d is
\* the significand: Prec bits, or fewer at the smallest exponent
RECURSIVE Norm(_, _, _)
Norm(n, d, e) ==
    IF e < EMin \/ n >= d * Pow2(Prec) THEN Norm(n, 2 * d, e + 1)
    ELSE IF e > EMin /\ n < d * Pow2(Prec - 1) THEN Norm(2 * n, d, e - 1)
    ELSE <<n, d, e>>

\* the float of sign s nearest to the normalised t = <<n, d, e>>, ties to
\* the even significand; past the largest finite value it is an infinity
RoundNorm(s, t) ==
    LET q == t[1] \div t[2]
        r == t[1] % t[2]
        up == 2 * r > t[2] \/ (2 * r = t[2] /\ q % 2 = 1)
        carry == up /\ q + 1 = Pow2(Prec)
    IN  IF t[3] + (IF carry THEN 1 ELSE 0) > EMax THEN Inf(s)
        ELSE IF carry THEN <<0, s, Pow2(Prec - 1), t[3] + 1>>
        ELSE IF up THEN <<0, s, q + 1, t[3]>>
        ELSE IF q = 0 THEN Zero(s)
        ELSE <<0, s, q, t[3]>>

\* the float nearest to (-1)^s * n/d * 2^e
Round(s, n, d, e) ==
    IF n = 0 THEN Zero(s)
    ELSE The({RoundNorm(s, t) : t \in {Norm(n, d, e)}})

\* a small non-negative integer literal of the source, as a float
Num(i) == Round(0, i, 1, 0)

FNeg(x) == IF IsNaN(x) THEN NaN ELSE <<x[1], 1 - x[2], x[3], x[4]>>

\* the finite value x in units of 2^EMin, as a signed integer
Units(x) == (IF x[2] = 1 THEN 0 - 1 ELSE 1) * x[3] * Pow2(x[4] - EMin)

\* u units of 2^EMin, rounded
RoundUnits(u, negZero) ==
    IF u = 0 THEN Zero(IF negZero THEN 1 ELSE 0)
    ELSE IF u < 0 THEN Round(1, 0 - u, 1, EMin)
    ELSE Round(0, u, 1, EMin)

AddValues(x, y) ==
    IF IsNaN(x) \/ IsNaN(y) THEN NaN
    ELSE IF IsInf(x) /\ IsInf(y) THEN (IF x[2] = y[2] THEN x ELSE NaN)
    ELSE IF IsInf(x) THEN x
    ELSE IF IsInf(y) THEN y
    ELSE The({RoundUnits(u, x[2] = 1 /\ y[2] = 1) :
                 u \in {Units(x) + Units(y)}})

MulValues(x, y) ==
    IF IsNaN(x) \/ IsNaN(y) THEN NaN
    ELSE IF IsInf(x) \/ IsInf(y)
         THEN (IF IsZero(x) \/ IsZero(y) THEN NaN ELSE Inf((x[2] + y[2]) % 2))
    ELSE Round((x[2] + y[2]) % 2, x[3] * y[3], 1, x[4] + y[4])

DivValues(x, y) ==
    IF IsNaN(x) \/ IsNaN(y) THEN NaN
    ELSE IF IsInf(x) THEN (IF IsInf(y) THEN NaN ELSE Inf((x[2] + y[2]) % 2))
    ELSE IF IsInf(y) THEN Zero((x[2] + y[2]) % 2)
    ELSE IF IsZero(y)
         THEN (IF IsZero(x) THEN NaN ELSE Inf((x[2] + y[2]) % 2))
    ELSE Round((x[2] + y[2]) % 2, x[3], y[3], x[4] - y[4])

LtValues(x, y) ==
    IF IsNaN(x) \/ IsNaN(y) THEN FALSE
    ELSE IF IsInf(x) THEN x[2] = 1 /\ ~(IsInf(y) /\ y[2] = 1)
    ELSE IF IsInf(y) THEN y[2] = 0
    ELSE Units(x) < Units(y)

EqValues(x, y) ==
    IF IsNaN(x) \/ IsNaN(y) THEN FALSE
    ELSE IF IsFinite(x) /\ IsFinite(y) THEN Units(x) = Units(y)
    ELSE x = y

\* a + b
FAdd(a, b) == The({AddValues(x, y) : x \in {a}, y \in {b}})

\* a - b
FSub(a, b) == The({AddValues(x, FNeg(y)) : x \in {a}, y \in {b}})

\* a * b
FMul(a, b) == The({MulValues(x, y) : x \in {a}, y \in {b}})

\* a / b
FDiv(a, b) == The({DivValues(x, y) : x \in {a}, y \in {b}})

\* a < b (false when either is NaN)
FLt(a, b) == \E x \in {a}, y \in {b} : LtValues(x, y)

\* a === b on numbers (false for NaN, true for 0 and -0)
FEq(a, b) == \E x \in {a}, y \in {b} : EqValues(x, y)

\* a <= b
FLe(a, b) == \E x \in {a}, y \in {b} : LtValues(x, y) \/ EqValues(x, y)

\* JSON `undefined`: a field the request body does not carry
Undefined == <<3, 0, 0, 0>>

\* the truthiness of a body field: 0, -0, NaN and undefined are falsy
Truthy(x) == x[1] \in {0, 1} /\ ~IsZero(x)

\* ------------------------------------------------------------------------
\* Inputs
\* ------------------------------------------------------------------------

GameIds == {"g1", "g2"}

\* the id of the market the library calls are made on
MarketIds == {"g1"}

UserIds == {"u1", "u2"}

Winners == {"white", "black", "draw"}

\* initialLiquidity = 1000 of the source, scaled to the float format: as in
\* the source, the pools and k = pool * pool are exact and far from both
\* ends of the exponent range
DefaultLiquidity == Num(4)

\* an amount so large that adding a pool to it, or subtracting k / it from
\* a pool, rounds the small operand away (1e20 against pools of 1000)
Huge == Round(0, 1, 1, EMax)

\* amounts a caller can pass: ordinary, huge, infinite (JSON 1e999), zero,
\* negative, NaN
PositiveAmounts == {Num(1), Num(3), Huge, Inf(0)}

NonPositiveAmounts == {Zero(0), FNeg(Num(1))}

\* the amounts of the calls made on the registry's markets
Amounts == {Num(1), Inf(0), NaN} \cup NonPositiveAmounts

\* the `amount` and `userId` fields of a request body ("" and Undefined:
\* the field is empty or missing)
BodyAmounts == {Num(1), Undefined} \cup NonPositiveAmounts

BodyUserIds == {"u1", ""}

Liquidities == {DefaultLiquidity, Zero(0), FNeg(Num(2))}

\* the largest finite number (Number.MAX_VALUE)
MaxNumber == <<0, 0, Pow2(Prec) - 1, EMax>>

\* the depth and stepSize arguments of getOrderBook
MaxDepth == 3

StepSizes == {Num(1), Num(2)}

\* the (name, argument) pairs of the read calls
ReadCalls ==
    ({"getWhitePrice", "getBlackPrice", "getState"} \X {NaN})
        \cup ({"calculateBuyWhite", "calculateBuyBlack"} \X {Num(1), FNeg(Num(1))})

\* the longest answer of the external model
MaxLen == 3

\* the characters of an answer, and the answers
AnswerChars == {"a", "b", "A", " "}

Answers == UNION {[1..n -> AnswerChars] : n \in 0..MaxLen}

Agents == {"claude", "gpt"}

\* moves in UCI notation, cut down to one or two characters, and the lists
\* of legal moves
Moves == {<<"a">>, <<"a", "b">>, <<"b", "a">>}

LegalMoveLists ==
    {<<m>> : m \in Moves} \cup
        {<<p[1], p[2]>> : p \in {q \in Moves \X Moves : q[1] # q[2]}}

\* the concurrent calls of playNextMove on one game
Calls == {"c1", "c2", "c3"}

\* what a move leaves on the board: the game goes on, the side to move is
\* checkmated, or the position is drawn (stalemate included)
Boards == {"open", "checkmate", "draw"}

\* moves after which the modelled game is over at the latest
MaxMoves == 2

\* ------------------------------------------------------------------------
\* PredictionMarket
\* ------------------------------------------------------------------------

NoPositions == [u \in {} |-> 0]

\* new PredictionMarket(gameId, initialLiquidity)
NewMarket(gameId, initialLiquidity) ==
    [gameId |-> gameId,
     whitePool |-> initialLiquidity,
     blackPool |-> initialLiquidity,
     k |-> FMul(initialLiquidity, initialLiquidity),
     positions |-> NoPositions,
     totalVolume |-> Zero(0),
     resolved |-> FALSE,
     winner |-> "null"]

getWhitePrice(m) == FDiv(m.blackPool, FAdd(m.whitePool, m.blackPool))

getBlackPrice(m) == FDiv(m.whitePool, FAdd(m.whitePool, m.blackPool))

\* the record calculateBuyWhite returns, from its locals
Quote(usdcAmount, tokensOut, priceBefore, priceAfter) ==
    The({[tokensOut |-> t,
          avgPrice |-> FDiv(usdcAmount, t),
          priceImpact |-> FDiv(FSub(priceAfter, before), before)] :
            t \in {tokensOut}, before \in {priceBefore}})

calculateBuyWhite(m, usdcAmount) ==
    The({The({Quote(usdcAmount, FSub(m.whitePool, newWhitePool),
                    getWhitePrice(m),
                    FDiv(newBlackPool, FAdd(newWhitePool, newBlackPool))) :
                newWhitePool \in {FDiv(m.k, newBlackPool)}}) :
             newBlackPool \in {FAdd(m.blackPool, usdcAmount)}})

calculateBuyBlack(m, usdcAmount) ==
    The({The({Quote(usdcAmount, FSub(m.blackPool, newBlackPool),
                    getBlackPrice(m),
                    FDiv(newWhitePool, FAdd(newBlackPool, newWhitePool))) :
                newBlackPool \in {FDiv(m.k, newWhitePool)}}) :
             newWhitePool \in {FAdd(m.whitePool, usdcAmount)}})

\* this.positions.get(userId) || { userId, whiteTokens: 0, blackTokens: 0, totalSpent: 0 }
PositionOrNew(m, userId) ==
    IF userId \in DOMAIN m.positions THEN m.positions[userId]
    ELSE [whiteTokens |-> Zero(0), blackTokens |-> Zero(0), totalSpent |-> Zero(0)]

\* the outcome of a call: err is the message of the Error thrown ("" when
\* the call returns), market the object after the call
Thrown(m, msg) ==
    [err |-> msg, market |-> m, tokensOut |-> NaN, newPrice |-> NaN]

Returned(m, tokensOut, newPrice) ==
    [err |-> "", market |-> m, tokensOut |-> tokensOut, newPrice |-> newPrice]

\* buyWhite that forgets to add the amount to totalVolume
CommitWhiteVolumeKept(m, userId, usdcAmount, tokensOut) ==
    [m EXCEPT
        !.blackPool = FAdd(m.blackPool, usdcAmount),
        !.whitePool = FSub(m.whitePool, tokensOut),
        !.positions = (userId :> [PositionOrNew(m, userId) EXCEPT
                          !.whiteTokens = FAdd(@, tokensOut),
                          !.totalSpent = FAdd(@, usdcAmount)]) @@ m.positions]

\* the market once buyWhite has committed tokensOut
CommitWhite(m, userId, usdcAmount, tokensOut) ==
    [m EXCEPT
        !.blackPool = FAdd(m.blackPool, usdcAmount),
        !.whitePool = FSub(m.whitePool, tokensOut),
        !.positions = (userId :> [PositionOrNew(m, userId) EXCEPT
                          !.whiteTokens = FAdd(@, tokensOut),
                          !.totalSpent = FAdd(@, usdcAmount)]) @@ m.positions,
        !.totalVolume = FAdd(m.totalVolume, usdcAmount)]

\* the market once buyBlack has committed tokensOut
CommitBlack(m, userId, usdcAmount, tokensOut) ==
    [m EXCEPT
        !.whitePool = FAdd(m.whitePool, usdcAmount),
        !.blackPool = FSub(m.blackPool, tokensOut),
        !.positions = (userId :> [PositionOrNew(m, userId) EXCEPT
                          !.blackTokens = FAdd(@, tokensOut),
                          !.totalSpent = FAdd(@, usdcAmount)]) @@ m.positions,
        !.totalVolume = FAdd(m.totalVolume, usdcAmount)]

\* buyWhite without its test of resolved
buyWhiteUnguarded(m, userId, usdcAmount) ==
    IF FLe(usdcAmount, Zero(0)) THEN Thrown(m, "Amount must be positive")
    ELSE The({The({Returned(after, tokensOut, getWhitePrice(after)) :
                after \in {CommitWhite(m, userId, usdcAmount, tokensOut)}}) :
             tokensOut \in {calculateBuyWhite(m, usdcAmount).tokensOut}})

buyWhite(m, userId, usdcAmount) ==
    IF m.resolved THEN Thrown(m, "Market is resolved")
    ELSE IF FLe(usdcAmount, Zero(0)) THEN Thrown(m, "Amount must be positive")
    ELSE The({The({Returned(after, tokensOut, getWhitePrice(after)) :
                after \in {CommitWhite(m, userId, usdcAmount, tokensOut)}}) :
             tokensOut \in {calculateBuyWhite(m, usdcAmount).tokensOut}})

\* buyBlack that rejects usdcAmount < 0 only
buyBlackZeroAccepted(m, userId, usdcAmount) ==
    IF m.resolved THEN Thrown(m, "Market is resolved")
    ELSE IF FLt(usdcAmount, Zero(0)) THEN Thrown(m, "Amount must be positive")
    ELSE The({The({Returned(after, tokensOut, getBlackPrice(after)) :
                after \in {CommitBlack(m, userId, usdcAmount, tokensOut)}}) :
             tokensOut \in {calculateBuyBlack(m, usdcAmount).tokensOut}})

buyBlack(m, userId, usdcAmount) ==
    IF m.resolved THEN Thrown(m, "Market is resolved")
    ELSE IF FLe(usdcAmount, Zero(0)) THEN Thrown(m, "Amount must be positive")
    ELSE The({The({Returned(after, tokensOut, getBlackPrice(after)) :
                after \in {CommitBlack(m, userId, usdcAmount, tokensOut)}}) :
             tokensOut \in {calculateBuyBlack(m, usdcAmount).tokensOut}})

\* a draw that pays both balances in full
PayoutDrawInFull(position, winner) ==
    IF winner = "white" THEN position.whiteTokens
    ELSE IF winner = "black" THEN position.blackTokens
    ELSE FAdd(position.whiteTokens, position.blackTokens)

\* the payout resolve computes for one position
Payout(position, winner) ==
    IF winner = "white" THEN position.whiteTokens
    ELSE IF winner = "black" THEN position.blackTokens
    ELSE FDiv(FAdd(position.whiteTokens, position.blackTokens), Num(2))

\* a resolve that closes the market and does not record the winner
resolveWinnerKept(m, winner) ==
    IF m.resolved
    THEN [err |-> "Already resolved", market |-> m, payouts |-> NoPositions]
    ELSE [err |-> "",
          market |-> [m EXCEPT !.resolved = TRUE],
          payouts |-> [u \in DOMAIN m.positions |->
                          Payout(m.positions[u], winner)]]

\* a resolve that returns the payouts that are not zero only
resolvePayingWinners(m, winner) ==
    IF m.resolved
    THEN [err |-> "Already resolved", market |-> m, payouts |-> NoPositions]
    ELSE [err |-> "",
          market |-> [m EXCEPT !.resolved = TRUE, !.winner = winner],
          payouts |-> [u \in {v \in DOMAIN m.positions :
                                ~IsZero(Payout(m.positions[v], winner))} |->
                          Payout(m.positions[u], winner)]]

\* resolve without its test of resolved
resolveAgain(m, winner) ==
    [err |-> "",
     market |-> [m EXCEPT !.resolved = TRUE, !.winner = winner],
     payouts |-> [u \in DOMAIN m.positions |-> Payout(m.positions[u], winner)]]

resolve(m, winner) ==
    IF m.resolved
    THEN [err |-> "Already resolved", market |-> m, payouts |-> NoPositions]
    ELSE [err |-> "",
          market |-> [m EXCEPT !.resolved = TRUE, !.winner = winner],
          payouts |-> [u \in DOMAIN m.positions |->
                          Payout(m.positions[u], winner)]]

\* levels 1..depth of one list of getOrderBook: bids at the avgPrice of the
\* quote for stepSize * i, asks at 1 - the avgPrice of the other outcome
Levels(m, depth, stepSize, list) ==
    [i \in 1..depth |->
        The({[price |-> IF list = "whiteBids"
                        THEN calculateBuyWhite(m, amount).avgPrice
                        ELSE IF list = "blackBids"
                        THEN calculateBuyBlack(m, amount).avgPrice
                        ELSE IF list = "whiteAsks"
                        THEN FSub(Num(1), calculateBuyBlack(m, amount).avgPrice)
                        ELSE FSub(Num(1), calculateBuyWhite(m, amount).avgPrice),
              size |-> amount] : amount \in {FMul(stepSize, Num(i))}})]

getOrderBook(m, depth, stepSize) ==
    [whiteBids |-> Levels(m, depth, stepSize, "whiteBids"),
     whiteAsks |-> Levels(m, depth, stepSize, "whiteAsks"),
     blackBids |-> Levels(m, depth, stepSize, "blackBids"),
     blackAsks |-> Levels(m, depth, stepSize, "blackAsks")]

getState(m) ==
    [gameId |-> m.gameId, whitePool |-> m.whitePool, blackPool |-> m.blackPool,
     k |-> m.k, whitePrice |-> getWhitePrice(m), blackPrice |-> getBlackPrice(m),
     totalVolume |-> m.totalVolume, resolved |-> m.resolved,
     winner |-> m.winner]

\* a getPosition that makes the entry it does not find
getPositionOrCreate(m, userId) ==
    [market |-> [m EXCEPT !.positions =
                    (userId :> PositionOrNew(m, userId)) @@ @],
     position |-> <<PositionOrNew(m, userId)>>]

\* getPosition(userId): the market after the call, and what it returns
\* (<<>> for undefined)
getPosition(m, userId) ==
    [market |-> m,
     position |-> IF userId \in DOMAIN m.positions
                  THEN <<m.positions[userId]>> ELSE <<>>]

ReadNames ==
    {"getWhitePrice", "getBlackPrice", "calculateBuyWhite",
     "calculateBuyBlack", "getState"}

\* what the read method name returns when called with amount
ReadValue(m, name, amount) ==
    IF name = "getWhitePrice" THEN getWhitePrice(m)
    ELSE IF name = "getBlackPrice" THEN getBlackPrice(m)
    ELSE IF name = "calculateBuyWhite" THEN calculateBuyWhite(m, amount)
    ELSE IF name = "calculateBuyBlack" THEN calculateBuyBlack(m, amount)
    ELSE getState(m)

\* a quote that keeps the pool it has computed
MarketAfterReadKeepingPool(m, name, amount) ==
    IF name = "calculateBuyWhite"
    THEN [m EXCEPT !.blackPool = FAdd(@, amount)]
    ELSE IF name = "calculateBuyBlack"
    THEN [m EXCEPT !.whitePool = FAdd(@, amount)]
    ELSE m

\* the market after a call of the read method name, or of getOrderBook:
\* none of them assigns to a field of the market
MarketAfterRead(m, name, amount) == m

\* ------------------------------------------------------------------------
\* MarketManager
\* ------------------------------------------------------------------------

NoMarkets == [g \in {} |-> 0]

\* a registry that holds one market only
createMarketAlone(ms, gameId, initialLiquidity) ==
    (gameId :> NewMarket(gameId, initialLiquidity))

\* the registry after createMarket(gameId, initialLiquidity)
createMarket(ms, gameId, initialLiquidity) ==
    (gameId :> NewMarket(gameId, initialLiquidity)) @@ ms

\* a lookup that registers the market it does not find
getMarketOrCreate(ms, gameId) ==
    IF gameId \in DOMAIN ms THEN [markets |-> ms, market |-> <<ms[gameId]>>]
    ELSE [markets |-> createMarket(ms, gameId, DefaultLiquidity),
          market |-> <<NewMarket(gameId, DefaultLiquidity)>>]

\* getMarket(gameId): the registry after the call, and what it returns
\* (<<>> for undefined)
getMarket(ms, gameId) ==
    [markets |-> ms,
     market |-> IF gameId \in DOMAIN ms THEN <<ms[gameId]>> ELSE <<>>]

\* ------------------------------------------------------------------------
\* ChessGame.  The chess.js board is kept as what the game loop reads of
\* it: whether the position is open, checkmate or drawn, and whose turn it
\* is.
\* ------------------------------------------------------------------------

NoGames == [g \in {} |-> 0]

Terminal == {"white_wins", "black_wins", "draw"}

\* new ChessGame(id); pc is where the promise of playFullGame stands and
\* seen the statuses the onMove callback was called with
NewGame ==
    [status |-> "waiting", isProcessing |-> FALSE, moves |-> 0,
     board |-> "open", turn |-> "w", endedAt |-> FALSE,
     pc |-> "idle", seen |-> {}]

isGameOver(game) == game.status \in Terminal

\* an endGame that sets endedAt only
endGameStatusKept(game) == [game EXCEPT !.endedAt = TRUE]

endGame(game) ==
    [game EXCEPT
        !.endedAt = TRUE,
        !.status = IF game.board = "checkmate"
                   THEN (IF game.turn = "w" THEN "black_wins" ELSE "white_wins")
                   ELSE IF game.board = "draw" THEN "draw"
                   ELSE @]

\* playFullGame once playNextMove has returned: the delay, or the end of
\* the loop
AfterPlayNextMove(game) ==
    IF ~isGameOver(game) THEN [game EXCEPT !.pc = "delay"]
    ELSE [game EXCEPT !.pc = "done"]

\* a playNextMove that does not look at isProcessing
EnterPlayNextMoveReentrant(game) ==
    IF game.status # "playing"
    THEN AfterPlayNextMove(game)
    ELSE IF game.board # "open"
    THEN AfterPlayNextMove([endGame(game) EXCEPT !.isProcessing = FALSE])
    ELSE [game EXCEPT !.isProcessing = TRUE, !.pc = "awaitMove"]

\* a playNextMove that does not look at the status
EnterPlayNextMoveAnyStatus(game) ==
    IF game.isProcessing
    THEN AfterPlayNextMove(game)
    ELSE IF game.board # "open"
    THEN AfterPlayNextMove([endGame(game) EXCEPT !.isProcessing = FALSE])
    ELSE [game EXCEPT !.isProcessing = TRUE, !.pc = "awaitMove"]

\* playNextMove up to its await of the agent's move
EnterPlayNextMove(game) ==
    IF game.status # "playing" \/ game.isProcessing
    THEN AfterPlayNextMove(game)
    ELSE IF game.board # "open"
    THEN AfterPlayNextMove([endGame(game) EXCEPT !.isProcessing = FALSE])
    ELSE [game EXCEPT !.isProcessing = TRUE, !.pc = "awaitMove"]

\* the test of the while loop of playFullGame
LoopHead(game) ==
    IF isGameOver(game) THEN [game EXCEPT !.pc = "done"]
    ELSE EnterPlayNextMove(game)

\* the onMove callback of the game start handler, called with a state of
\* this status: the registry after it
OnMove(ms, g, status) ==
    IF status \in Terminal
    THEN LET winner == IF status = "white_wins" THEN "white"
                       ELSE IF status = "black_wins" THEN "black"
                       ELSE "draw"
         IN  [ms EXCEPT ![g] = resolve(ms[g], winner).market]
    ELSE ms

\* playNextMove from the agent's answer to its return
ApplyMove(game, board) ==
    LET moved == [game EXCEPT !.moves = @ + 1, !.board = board,
                     !.turn = IF @ = "w" THEN "b" ELSE "w",
                     !.seen = @ \cup {game.status}]
        ended == IF board # "open" THEN endGame(moved) ELSE moved
    IN  AfterPlayNextMove([ended EXCEPT !.isProcessing = FALSE])

\* ------------------------------------------------------------------------
\* The agents.  Texts and moves are sequences of characters.
\* ------------------------------------------------------------------------

\* String.prototype.trim
RECURSIVE trim(_)
trim(t) ==
    IF t = <<>> THEN t
    ELSE IF Head(t) = " " THEN trim(Tail(t))
    ELSE IF t[Len(t)] = " " THEN trim(SubSeq(t, 1, Len(t) - 1))
    ELSE t

\* String.prototype.toLowerCase
toLowerCase(t) == [i \in DOMAIN t |-> IF t[i] = "A" THEN "a" ELSE t[i]]

\* response.includes(move)
includes(response, move) ==
    \E i \in 0..(Len(response) - Len(move)) :
        SubSeq(response, i + 1, i + Len(move)) = move

\* the loop over legalMoves, from index i on, and the fallback after it
RECURSIVE ExtractFrom(_, _, _)
ExtractFrom(legalMoves, response, i) ==
    IF i > Len(legalMoves) THEN legalMoves[1]
    ELSE IF includes(response, legalMoves[i]) THEN legalMoves[i]
    ELSE ExtractFrom(legalMoves, response, i + 1)

\* a fallback that returns the answer as it is
ChooseMoveOrEcho(legalMoves, response) ==
    IF \E i \in DOMAIN legalMoves : legalMoves[i] = response THEN response
    ELSE IF \E i \in DOMAIN legalMoves : includes(response, legalMoves[i])
    THEN ExtractFrom(legalMoves, response, 1)
    ELSE response

\* what getClaudeMove and getGptMove return for the normalised response
ChooseMove(legalMoves, response) ==
    IF \E i \in DOMAIN legalMoves : legalMoves[i] = response THEN response
    ELSE ExtractFrom(legalMoves, response, 1)

getClaudeMove(text, legalMoves) ==
    ChooseMove(legalMoves, toLowerCase(trim(text)))

getGptMove(content, legalMoves) ==
    ChooseMove(legalMoves, toLowerCase(trim(content)))

getAgentMove(agent, answer, legalMoves) ==
    IF agent = "claude" THEN getClaudeMove(answer, legalMoves)
    ELSE getGptMove(answer, legalMoves)

\* ------------------------------------------------------------------------
\* The buy handlers of the server
\* ------------------------------------------------------------------------

Reply(ms, status, err, r) ==
    [markets |-> ms, status |-> status, err |-> err,
     tokensOut |-> r.tokensOut, newPrice |-> r.newPrice]

NoResult == [tokensOut |-> NaN, newPrice |-> NaN]

\* POST /api/market/:gameId/buy-white
postBuyWhite(ms, g, userId, amount) ==
    IF g \notin DOMAIN ms THEN Reply(ms, 404, "Market not found", NoResult)
    ELSE IF userId = "" \/ ~Truthy(amount) \/ FLe(amount, Zero(0))
    THEN Reply(ms, 400, "Invalid request", NoResult)
    ELSE The({IF r.err # "" THEN Reply(ms, 400, r.err, NoResult)
              ELSE Reply([ms EXCEPT ![g] = r.market], 200, "", r) :
                 r \in {buyWhite(ms[g], userId, amount)}})

\* POST /api/market/:gameId/buy-black
postBuyBlack(ms, g, userId, amount) ==
    IF g \notin DOMAIN ms THEN Reply(ms, 404, "Market not found", NoResult)
    ELSE IF userId = "" \/ ~Truthy(amount) \/ FLe(amount, Zero(0))
    THEN Reply(ms, 400, "Invalid request", NoResult)
    ELSE The({IF r.err # "" THEN Reply(ms, 400, r.err, NoResult)
              ELSE Reply([ms EXCEPT ![g] = r.market], 200, "", r) :
                 r \in {buyBlack(ms[g], userId, amount)}})

\* GET /api/market/:gameId/position/:userId
getPositionRequest(ms, g, userId) ==
    IF g \notin DOMAIN ms
    THEN [markets |-> ms, status |-> 404, err |-> "Market not found",
          position |-> <<>>]
    ELSE The({[markets |-> [ms EXCEPT ![g] = r.market], status |-> 200,
               err |-> "",
               position |-> IF r.position # <<>> THEN r.position
                            ELSE <<[whiteTokens |-> Zero(0),
                                    blackTokens |-> Zero(0),
                                    totalSpent |-> Zero(0)]>>] :
                 r \in {getPosition(ms[g], userId)}})

\* GET /api/market/:gameId
getMarketRequest(ms, g) ==
    The({IF r.market = <<>>
         THEN [markets |-> r.markets, status |-> 404,
               err |-> "Market not found", body |-> <<>>]
         ELSE [markets |-> r.markets, status |-> 200, err |-> "",
               body |-> <<getState(r.market[1])>>] :
            r \in {getMarket(ms, g)}})

\* ------------------------------------------------------------------------
\* State
\* ------------------------------------------------------------------------

VARIABLES
    markets,    \* MarketManager.markets: gameId -> PredictionMarket
    games,      \* GameManager.games: gameId -> ChessGame
    nops,       \* calls and requests made so far
    last        \* the last call or request: its arguments and its outcome

vars == <<markets, games, nops, last>>

NoCall ==
    [op |-> "none", gameId |-> "", userId |-> "", amount |-> NaN,
     winner |-> "null", err |-> "", status |-> 0, tokensOut |-> NaN,
     newPrice |-> NaN, payouts |-> NoPositions, before |-> NoMarkets]

Init ==
    /\ markets = NoMarkets
    /\ games = NoGames
    /\ nops = 0
    /\ last = NoCall

\* marketManager.createMarket(g, l)
CreateMarket(g, l) ==
    /\ nops < MaxOps
    /\ markets' = createMarket(markets, g, l)
    /\ nops' = nops + 1
    /\ last' = [NoCall EXCEPT !.op = "createMarket", !.gameId = g,
                              !.amount = l, !.before = markets]
    /\ UNCHANGED games

\* marketManager.getMarket(g).buyWhite(u, a)
BuyWhite(g, u, a) ==
    /\ nops < MaxOps
    /\ g \in DOMAIN markets
    /\ \E r \in {buyWhite(markets[g], u, a)} :
           /\ markets' = [markets EXCEPT ![g] = r.market]
           /\ last' = [NoCall EXCEPT !.op = "buyWhite", !.gameId = g,
                          !.userId = u, !.amount = a, !.err = r.err,
                          !.tokensOut = r.tokensOut, !.newPrice = r.newPrice,
                          !.before = markets]
    /\ nops' = nops + 1
    /\ UNCHANGED games

\* marketManager.getMarket(g).buyBlack(u, a)
BuyBlack(g, u, a) ==
    /\ nops < MaxOps
    /\ g \in DOMAIN markets
    /\ \E r \in {buyBlack(markets[g], u, a)} :
           /\ markets' = [markets EXCEPT ![g] = r.market]
           /\ last' = [NoCall EXCEPT !.op = "buyBlack", !.gameId = g,
                          !.userId = u, !.amount = a, !.err = r.err,
                          !.tokensOut = r.tokensOut, !.newPrice = r.newPrice,
                          !.before = markets]
    /\ nops' = nops + 1
    /\ UNCHANGED games

\* marketManager.getMarket(g).resolve(w)
Resolve(g, w) ==
    /\ nops < MaxOps
    /\ g \in DOMAIN markets
    /\ \E r \in {resolve(markets[g], w)} :
           /\ markets' = [markets EXCEPT ![g] = r.market]
           /\ last' = [NoCall EXCEPT !.op = "resolve", !.gameId = g,
                          !.winner = w, !.err = r.err, !.payouts = r.payouts,
                          !.before = markets]
    /\ nops' = nops + 1
    /\ UNCHANGED games

\* a POST /api/market/g/buy-white request with body {userId: u, amount: a}
PostBuyWhite(g, u, a) ==
    /\ nops < MaxOps
    /\ \E r \in {postBuyWhite(markets, g, u, a)} :
           /\ markets' = r.markets
           /\ last' = [NoCall EXCEPT !.op = "POST buy-white", !.gameId = g,
                          !.userId = u, !.amount = a, !.err = r.err,
                          !.status = r.status, !.tokensOut = r.tokensOut,
                          !.newPrice = r.newPrice, !.before = markets]
    /\ nops' = nops + 1
    /\ UNCHANGED games

\* a POST /api/market/g/buy-black request with body {userId: u, amount: a}
PostBuyBlack(g, u, a) ==
    /\ nops < MaxOps
    /\ \E r \in {postBuyBlack(markets, g, u, a)} :
           /\ markets' = r.markets
           /\ last' = [NoCall EXCEPT !.op = "POST buy-black", !.gameId = g,
                          !.userId = u, !.amount = a, !.err = r.err,
                          !.status = r.status, !.tokensOut = r.tokensOut,
                          !.newPrice = r.newPrice, !.before = markets]
    /\ nops' = nops + 1
    /\ UNCHANGED games

\* a POST /api/game/start request: the handler, and playFullGame up to its
\* first await; g is the id createGame draws for the new game
PostGameStart(g) ==
    /\ nops < MaxOps
    /\ g \notin DOMAIN games
    /\ LET created == createMarket(markets, g, DefaultLiquidity)
           started == [NewGame EXCEPT !.status = "playing",
                                      !.seen = {"playing"}]
       IN  /\ markets' = OnMove(created, g, "playing")
           /\ games' = (g :> LoopHead(started)) @@ games
    /\ nops' = nops + 1
    /\ last' = [NoCall EXCEPT !.op = "POST game/start", !.gameId = g,
                              !.status = 200, !.before = markets]

\* the agent answers while playNextMove awaits it; the move leaves board b
AgentMove(g, b) ==
    /\ g \in DOMAIN games
    /\ games[g].pc = "awaitMove"
    /\ b = "open" => games[g].moves + 1 < MaxMoves
    /\ markets' = OnMove(markets, g, games[g].status)
    /\ games' = [games EXCEPT ![g] = ApplyMove(games[g], b)]
    /\ UNCHANGED <<nops, last>>

\* the request to the agent fails: playNextMove and playFullGame reject
AgentFails(g) ==
    /\ g \in DOMAIN games
    /\ games[g].pc = "awaitMove"
    /\ games' = [games EXCEPT ![g] = [@ EXCEPT !.isProcessing = FALSE,
                                                !.pc = "failed"]]
    /\ UNCHANGED <<markets, nops, last>>

\* the delay between two moves is over
DelayElapsed(g) ==
    /\ g \in DOMAIN games
    /\ games[g].pc = "delay"
    /\ games' = [games EXCEPT ![g] = LoopHead(games[g])]
    /\ UNCHANGED <<markets, nops, last>>

\* the exported classes, called by any client, and the buy endpoints
Next ==
    \/ \E g \in MarketIds, l \in Liquidities : CreateMarket(g, l)
    \/ \E g \in MarketIds, u \in UserIds, a \in Amounts : BuyWhite(g, u, a)
    \/ \E g \in MarketIds, u \in UserIds, a \in Amounts : BuyBlack(g, u, a)
    \/ \E g \in MarketIds, w \in Winners : Resolve(g, w)
    \/ \E g \in MarketIds, u \in BodyUserIds, a \in BodyAmounts :
          PostBuyWhite(g, u, a)
    \/ \E g \in MarketIds, u \in BodyUserIds, a \in BodyAmounts :
          PostBuyBlack(g, u, a)

Spec == Init /\ [][Next]_vars

\* one market, created with the default liquidity, and the buys and the
\* resolve made on it with amounts > 0
InitLedger ==
    /\ markets = createMarket(NoMarkets, "g1", DefaultLiquidity)
    /\ games = NoGames
    /\ nops = 0
    /\ last = NoCall

NextLedger ==
    \/ \E u \in UserIds, a \in PositiveAmounts : BuyWhite("g1", u, a)
    \/ \E u \in UserIds, a \in PositiveAmounts : BuyBlack("g1", u, a)
    \/ \E w \in Winners : Resolve("g1", w)

SpecLedger == InitLedger /\ [][NextLedger]_vars

\* the server: requests, and the game loops they start
NextServer ==
    \/ \E g \in GameIds : PostGameStart(g)
    \/ \E g \in GameIds, u \in BodyUserIds, a \in BodyAmounts :
          PostBuyWhite(g, u, a)
    \/ \E g \in GameIds, u \in BodyUserIds, a \in BodyAmounts :
          PostBuyBlack(g, u, a)
    \/ \E g \in GameIds, b \in Boards : AgentMove(g, b)
    \/ \E g \in GameIds : AgentFails(g)
    \/ \E g \in GameIds : DelayElapsed(g)

SpecServer == Init /\ [][NextServer]_vars
\* the calls made on the markets of two games, created with the default
\* liquidity or with the largest one
NextPair ==
    \/ \E g \in GameIds, l \in {DefaultLiquidity, MaxNumber} : CreateMarket(g, l)
    \/ \E g \in GameIds, u \in UserIds : BuyWhite(g, u, Num(1))
    \/ \E g \in GameIds, u \in UserIds : BuyBlack(g, u, Num(1))
    \/ \E g \in GameIds, w \in Winners : Resolve(g, w)

SpecPair == Init /\ [][NextPair]_vars

\* ------------------------------------------------------------------------
\* The read calls.  Here last has one more field, value: what the call
\* returned.
\* ------------------------------------------------------------------------

WithValue(call, value) == [value |-> value] @@ call

\* marketManager.getMarket(g).getPosition(u)
GetPosition(g, u) ==
    /\ nops < MaxOps
    /\ g \in DOMAIN markets
    /\ \E r \in {getPosition(markets[g], u)} :
          /\ markets' = [markets EXCEPT ![g] = r.market]
          /\ last' = WithValue([NoCall EXCEPT !.op = "getPosition",
                                  !.gameId = g, !.userId = u,
                                  !.before = markets], r.position)
    /\ nops' = nops + 1
    /\ UNCHANGED games

\* a GET /api/market/g/position/u request
GetPositionRequest(g, u) ==
    /\ nops < MaxOps
    /\ \E r \in {getPositionRequest(markets, g, u)} :
          /\ markets' = r.markets
          /\ last' = WithValue([NoCall EXCEPT !.op = "GET position",
                                  !.gameId = g, !.userId = u,
                                  !.status = r.status, !.err = r.err,
                                  !.before = markets], r.position)
    /\ nops' = nops + 1
    /\ UNCHANGED games

\* marketManager.getMarket(g).name(a), name one of the read methods
ReadCall(g, name, a) ==
    /\ nops < MaxOps
    /\ g \in DOMAIN markets
    /\ markets' = [markets EXCEPT ![g] = MarketAfterRead(@, name, a)]
    /\ last' = WithValue([NoCall EXCEPT !.op = name, !.gameId = g,
                            !.amount = a, !.before = markets],
                         ReadValue(markets[g], name, a))
    /\ nops' = nops + 1
    /\ UNCHANGED games

\* marketManager.getMarket(g).getOrderBook(depth, stepSize)
GetOrderBook(g, depth, stepSize) ==
    /\ nops < MaxOps
    /\ g \in DOMAIN markets
    /\ markets' = [markets EXCEPT ![g] =
                      MarketAfterRead(@, "getOrderBook", stepSize)]
    /\ last' = WithValue([NoCall EXCEPT !.op = "getOrderBook", !.gameId = g,
                            !.amount = stepSize, !.status = depth,
                            !.before = markets],
                         getOrderBook(markets[g], depth, stepSize))
    /\ nops' = nops + 1
    /\ UNCHANGED games

\* the calls that change a market, and the read calls between them
NextReads ==
    \/ \E l \in Liquidities : CreateMarket("g1", l)
    \/ \E u \in UserIds : BuyWhite("g1", u, Num(1))
    \/ \E u \in UserIds : BuyBlack("g1", u, Num(1))
    \/ \E w \in Winners : Resolve("g1", w)
    \/ \E u \in UserIds : GetPosition("g1", u)
    \/ \E u \in UserIds : GetPositionRequest("g1", u)
    \/ \E c \in ReadCalls : ReadCall("g1", c[1], c[2])
    \/ \E depth \in {1, MaxDepth}, stepSize \in StepSizes :
          GetOrderBook("g1", depth, stepSize)

SpecReads == Init /\ [][NextReads]_vars

\* marketManager.getMarket(g)
GetMarket(g) ==
    /\ nops < MaxOps
    /\ \E r \in {getMarket(markets, g)} :
          /\ markets' = r.markets
          /\ last' = WithValue([NoCall EXCEPT !.op = "getMarket", !.gameId = g,
                                  !.before = markets], r.market)
    /\ nops' = nops + 1
    /\ UNCHANGED games

\* a GET /api/market/g request
GetMarketRequest(g) ==
    /\ nops < MaxOps
    /\ \E r \in {getMarketRequest(markets, g)} :
          /\ markets' = r.markets
          /\ last' = WithValue([NoCall EXCEPT !.op = "GET market", !.gameId = g,
                                  !.status = r.status, !.err = r.err,
                                  !.before = markets], r.body)
    /\ nops' = nops + 1
    /\ UNCHANGED games

\* lookups of the ids of two games, of which any may have a market
NextLookup ==
    \/ \E g \in GameIds : CreateMarket(g, DefaultLiquidity)
    \/ \E g \in GameIds, u \in UserIds : BuyWhite(g, u, Num(1))
    \/ \E g \in GameIds : GetMarket(g)
    \/ \E g \in GameIds : GetMarketRequest(g)
    \/ \E g \in GameIds, u \in UserIds : GetPositionRequest(g, u)
    \/ \E g \in GameIds : PostBuyWhite(g, "u1", Num(1))
    \/ \E g \in GameIds : PostBuyBlack(g, "u1", Num(1))

SpecLookup == Init /\ [][NextLookup]_vars

\* the game loops the server starts, when every request to an agent is
\* answered and every timer of the delay fires
NextGame ==
    \/ \E g \in GameIds : PostGameStart(g)
    \/ \E g \in GameIds : PostBuyWhite(g, "u1", Num(1))
    \/ \E g \in GameIds, b \in Boards : AgentMove(g, b)
    \/ \E g \in GameIds : DelayElapsed(g)

FairGame ==
    \A g \in GameIds :
        /\ WF_vars(\E b \in Boards : AgentMove(g, b))
        /\ WF_vars(DelayElapsed(g))

SpecGame == Init /\ [][NextGame]_vars /\ FairGame

\* one call of getAgentMove: last holds the agent, the list of legal moves,
\* the text the external model answers and, after the call, the move
InitAgent ==
    /\ markets = NoMarkets
    /\ games = NoGames
    /\ nops = 0
    /\ \E agent \in Agents, answer \in Answers, legalMoves \in LegalMoveLists :
          last = [agent |-> agent, answer |-> answer,
                  legalMoves |-> legalMoves, move |-> <<>>] @@ NoCall

GetAgentMove ==
    /\ last.op = "none"
    /\ last' = [last EXCEPT
                  !.op = "getAgentMove",
                  !.move = getAgentMove(last.agent, last.answer,
                                        last.legalMoves)]
    /\ UNCHANGED <<markets, games, nops>>

NextAgent == GetAgentMove

SpecAgent == InitAgent /\ [][NextAgent]_vars

\* playNextMove called directly and concurrently on one game: calls tells
\* where each call stands: not made ("idle"), at its await of the agent
\* ("awaiting"), returned at once because the game was not being played
\* ("skipped") or because another call was in progress ("busy"), returned
\* after its move ("returned"), or rejected by the agent's error ("threw")
InitPlay ==
    /\ markets = NoMarkets
    /\ games = ("g1" :> ([calls |-> [c \in Calls |-> "idle"]] @@ NewGame))
    /\ nops = 0
    /\ last = NoCall

\* game.start()
Start ==
    /\ games["g1"].status = "waiting"
    /\ games' = [games EXCEPT !["g1"].status = "playing"]
    /\ UNCHANGED <<markets, nops, last>>

\* call c of playNextMove, up to its early return or its await
CallPlayNextMove(c) ==
    /\ games["g1"].calls[c] # "awaiting"
    /\ \E entered \in {EnterPlayNextMove(games["g1"])} :
          games' = [games EXCEPT !["g1"] =
                       [entered EXCEPT
                           !.pc = "idle",
                           !.calls[c] =
                               IF entered.pc = "awaitMove" THEN "awaiting"
                               ELSE IF games["g1"].status # "playing"
                               THEN "skipped"
                               ELSE IF games["g1"].isProcessing THEN "busy"
                               ELSE "returned"]]
    /\ UNCHANGED <<markets, nops, last>>

\* the agent answers call c; the move leaves board b
AgentAnswers(c, b) ==
    /\ games["g1"].calls[c] = "awaiting"
    /\ b = "open" => games["g1"].moves + 1 < MaxMoves
    /\ games' = [games EXCEPT !["g1"] =
                    [ApplyMove(games["g1"], b) EXCEPT
                        !.pc = "idle", !.calls[c] = "returned"]]
    /\ UNCHANGED <<markets, nops, last>>

\* the agent's request of call c fails: the finally block, then the
\* rejection
AgentThrows(c) ==
    /\ games["g1"].calls[c] = "awaiting"
    /\ games' = [games EXCEPT !["g1"] =
                    [@ EXCEPT !.isProcessing = FALSE, !.calls[c] = "threw"]]
    /\ UNCHANGED <<markets, nops, last>>

NextPlay ==
    \/ Start
    \/ \E c \in Calls : CallPlayNextMove(c)
    \/ \E c \in Calls, b \in Boards : AgentAnswers(c, b)
    \/ \E c \in Calls : AgentThrows(c)

SpecPlay == InitPlay /\ [][NextPlay]_vars

\* one market, created with the default liquidity, and an account of the
\* amounts its buys were paid: paidWhite and paidBlack are the exact sums
\* of the finite amounts of the buys of each side that returned, in units
\* of 2^EMin, and infWhite and infBlack tell whether a buy of Infinity
\* returned
Paid(call, paidWhite, infWhite, paidBlack, infBlack) ==
    [paidWhite |-> paidWhite, infWhite |-> infWhite,
     paidBlack |-> paidBlack, infBlack |-> infBlack] @@ call

InitAccount ==
    /\ markets = createMarket(NoMarkets, "g1", DefaultLiquidity)
    /\ games = NoGames
    /\ nops = 0
    /\ last = Paid(NoCall, 0, FALSE, 0, FALSE)

PaidBuyWhite(u, a) ==
    /\ nops < MaxOps
    /\ \E r \in {buyWhite(markets["g1"], u, a)} :
           /\ markets' = [markets EXCEPT !["g1"] = r.market]
           /\ last' = [last EXCEPT
                 !.op = "buyWhite", !.gameId = "g1", !.userId = u,
                 !.amount = a, !.err = r.err,
                 !.paidWhite = IF r.err = "" /\ IsFinite(a)
                               THEN @ + Units(a) ELSE @,
                 !.infWhite = @ \/ (r.err = "" /\ ~IsFinite(a))]
    /\ nops' = nops + 1
    /\ UNCHANGED games

PaidBuyBlack(u, a) ==
    /\ nops < MaxOps
    /\ \E r \in {buyBlack(markets["g1"], u, a)} :
           /\ markets' = [markets EXCEPT !["g1"] = r.market]
           /\ last' = [last EXCEPT
                 !.op = "buyBlack", !.gameId = "g1", !.userId = u,
                 !.amount = a, !.err = r.err,
                 !.paidBlack = IF r.err = "" /\ IsFinite(a)
                               THEN @ + Units(a) ELSE @,
                 !.infBlack = @ \/ (r.err = "" /\ ~IsFinite(a))]
    /\ nops' = nops + 1
    /\ UNCHANGED games

PaidResolve(w) ==
    /\ nops < MaxOps
    /\ \E r \in {resolve(markets["g1"], w)} :
           /\ markets' = [markets EXCEPT !["g1"] = r.market]
           /\ last' = [last EXCEPT !.op = "resolve", !.gameId = "g1",
                                   !.winner = w, !.err = r.err]
    /\ nops' = nops + 1
    /\ UNCHANGED games

NextAccount ==
    \/ \E u \in UserIds, a \in PositiveAmounts : PaidBuyWhite(u, a)
    \/ \E u \in UserIds, a \in PositiveAmounts : PaidBuyBlack(u, a)
    \/ \E w \in Winners : PaidResolve(w)

SpecAccount == InitAccount /\ [][NextAccount]_vars

\* one market, created with the default liquidity, with the record of who
\* called buyWhite or buyBlack on it: buyers are the participants of whom
\* a buy returned, refused those of whom a buy threw
Bought(call, buyers, refused) ==
    [buyers |-> buyers, refused |-> refused] @@ call

InitSettle ==
    /\ markets = createMarket(NoMarkets, "g1", DefaultLiquidity)
    /\ games = NoGames
    /\ nops = 0
    /\ last = Bought(NoCall, {}, {})

SettleBuyWhite(u, a) ==
    /\ nops < MaxOps
    /\ \E r \in {buyWhite(markets["g1"], u, a)} :
           /\ markets' = [markets EXCEPT !["g1"] = r.market]
           /\ last' = Bought([NoCall EXCEPT
                                 !.op = "buyWhite", !.gameId = "g1",
                                 !.userId = u, !.amount = a, !.err = r.err,
                                 !.tokensOut = r.tokensOut,
                                 !.newPrice = r.newPrice, !.before = markets],
                             IF r.err = "" THEN last.buyers \cup {u}
                             ELSE last.buyers,
                             IF r.err = "" THEN last.refused
                             ELSE last.refused \cup {u})
    /\ nops' = nops + 1
    /\ UNCHANGED games

SettleBuyBlack(u, a) ==
    /\ nops < MaxOps
    /\ \E r \in {buyBlack(markets["g1"], u, a)} :
           /\ markets' = [markets EXCEPT !["g1"] = r.market]
           /\ last' = Bought([NoCall EXCEPT
                                 !.op = "buyBlack", !.gameId = "g1",
                                 !.userId = u, !.amount = a, !.err = r.err,
                                 !.tokensOut = r.tokensOut,
                                 !.newPrice = r.newPrice, !.before = markets],
                             IF r.err = "" THEN last.buyers \cup {u}
                             ELSE last.buyers,
                             IF r.err = "" THEN last.refused
                             ELSE last.refused \cup {u})
    /\ nops' = nops + 1
    /\ UNCHANGED games

SettleResolve(w) ==
    /\ nops < MaxOps
    /\ \E r \in {resolve(markets["g1"], w)} :
           /\ markets' = [markets EXCEPT !["g1"] = r.market]
           /\ last' = Bought([NoCall EXCEPT
                                 !.op = "resolve", !.gameId = "g1",
                                 !.winner = w, !.err = r.err,
                                 !.payouts = r.payouts, !.before = markets],
                             last.buyers, last.refused)
    /\ nops' = nops + 1
    /\ UNCHANGED games

NextSettle ==
    \/ \E u \in UserIds, a \in Amounts : SettleBuyWhite(u, a)
    \/ \E u \in UserIds, a \in Amounts : SettleBuyBlack(u, a)
    \/ \E w \in Winners : SettleResolve(w)

SpecSettle == InitSettle /\ [][NextSettle]_vars

\* ------------------------------------------------------------------------
\* The server's handlers step by step.  Node runs them on one thread: a
\* handler that has begun runs to its end before the next request, timer or
\* promise callback is dispatched, and the buy handlers hold no await.
\* Here last has two more fields: pc, where the running buy handler stands
\* ("done": none is running), and serial, the registry that the requests
\* dispatched so far leave when each is applied in one piece.
\* ------------------------------------------------------------------------

Tracked(call, pc, serial) == [pc |-> pc, serial |-> serial] @@ call

\* a dispatch in the middle of a running handler, as an await inside the
\* buy would allow
DispatchableAnyTime(l) == TRUE

\* the event loop takes the next request or callback
Dispatchable(l) == l.pc = "done"

\* the tests of the handler and of the buy it calls, up to the first
\* assignment
Refused(ms, g, userId, amount) ==
    \/ g \notin DOMAIN ms
    \/ userId = ""
    \/ ~Truthy(amount)
    \/ FLe(amount, Zero(0))
    \/ ms[g].resolved

postBuy(side, ms, g, userId, amount) ==
    IF side = "white" THEN postBuyWhite(ms, g, userId, amount)
    ELSE postBuyBlack(ms, g, userId, amount)

InitEventLoop ==
    /\ markets = NoMarkets
    /\ games = NoGames
    /\ nops = 0
    /\ last = Tracked(NoCall, "done", NoMarkets)

\* a POST /api/game/start request, as PostGameStart
HandleGameStart(g) ==
    /\ nops < MaxOps
    /\ Dispatchable(last)
    /\ g \notin DOMAIN games
    /\ markets' = OnMove(createMarket(markets, g, DefaultLiquidity), g, "playing")
    /\ games' = (g :> LoopHead([NewGame EXCEPT !.status = "playing",
                                               !.seen = {"playing"}])) @@ games
    /\ nops' = nops + 1
    /\ last' = Tracked([NoCall EXCEPT !.op = "POST game/start", !.gameId = g,
                                      !.status = 200, !.before = markets],
                       "done",
                       OnMove(createMarket(last.serial, g, DefaultLiquidity),
                              g, "playing"))

\* a buy request: the handler up to the two assignments to the pools, or to
\* its reply when it refuses the request
BeginBuy(side, g, u, a) ==
    /\ nops < MaxOps
    /\ Dispatchable(last)
    /\ \E serial \in {postBuy(side, last.serial, g, u, a).markets} :
          \E call \in {[NoCall EXCEPT
                          !.op = IF side = "white" THEN "POST buy-white"
                                 ELSE "POST buy-black",
                          !.gameId = g, !.userId = u, !.amount = a,
                          !.before = markets]} :
             IF Refused(markets, g, u, a)
             THEN \E r \in {postBuy(side, markets, g, u, a)} :
                     /\ markets' = r.markets
                     /\ last' = Tracked([call EXCEPT !.err = r.err,
                                                     !.status = r.status],
                                        "done", serial)
             ELSE \E t \in {IF side = "white"
                            THEN calculateBuyWhite(markets[g], a).tokensOut
                            ELSE calculateBuyBlack(markets[g], a).tokensOut} :
                     /\ markets' =
                           IF side = "white"
                           THEN [markets EXCEPT
                                    ![g].blackPool = FAdd(@, a),
                                    ![g].whitePool = FSub(@, t)]
                           ELSE [markets EXCEPT
                                    ![g].whitePool = FAdd(@, a),
                                    ![g].blackPool = FSub(@, t)]
                     /\ last' = Tracked([call EXCEPT !.tokensOut = t],
                                        "position", serial)
    /\ nops' = nops + 1
    /\ UNCHANGED games

\* the running buy: the three statements on the participant's position
StepPosition ==
    /\ last.pc = "position"
    /\ \E g \in {last.gameId}, u \in {last.userId} :
          markets' =
             [markets EXCEPT ![g].positions =
                (u :> (IF last.op = "POST buy-white"
                       THEN [PositionOrNew(markets[g], u) EXCEPT
                               !.whiteTokens = FAdd(@, last.tokensOut),
                               !.totalSpent = FAdd(@, last.amount)]
                       ELSE [PositionOrNew(markets[g], u) EXCEPT
                               !.blackTokens = FAdd(@, last.tokensOut),
                               !.totalSpent = FAdd(@, last.amount)])) @@ @]
    /\ last' = [last EXCEPT !.pc = "volume"]
    /\ UNCHANGED <<games, nops>>

\* the running buy: totalVolume, the return of the buy and the reply
StepVolume ==
    /\ last.pc = "volume"
    /\ \E after \in {[markets EXCEPT ![last.gameId].totalVolume =
                                        FAdd(@, last.amount)]} :
          /\ markets' = after
          /\ last' = [last EXCEPT
                        !.pc = "done",
                        !.status = 200,
                        !.newPrice = IF last.op = "POST buy-white"
                                     THEN getWhitePrice(after[last.gameId])
                                     ELSE getBlackPrice(after[last.gameId])]
    /\ UNCHANGED <<games, nops>>

\* a GET /api/market/g request: last.before is the registry it reads
HandleGetMarket(g) ==
    /\ nops < MaxOps
    /\ Dispatchable(last)
    /\ last' = Tracked([NoCall EXCEPT
                          !.op = "GET market", !.gameId = g,
                          !.status = IF g \in DOMAIN markets THEN 200 ELSE 404,
                          !.err = IF g \in DOMAIN markets THEN ""
                                  ELSE "Market not found",
                          !.before = markets],
                       "done", last.serial)
    /\ nops' = nops + 1
    /\ UNCHANGED <<markets, games>>

\* the agent's answer is dispatched: playNextMove goes on, as AgentMove
LoopMove(g, b) ==
    /\ Dispatchable(last)
    /\ g \in DOMAIN games
    /\ games[g].pc = "awaitMove"
    /\ b = "open" => games[g].moves + 1 < MaxMoves
    /\ markets' = OnMove(markets, g, games[g].status)
    /\ games' = [games EXCEPT ![g] = ApplyMove(games[g], b)]
    /\ last' = [last EXCEPT !.serial = OnMove(@, g, games[g].status)]
    /\ UNCHANGED nops

NextEventLoop ==
    \/ HandleGameStart("g1")
    \/ \E side \in {"white", "black"}, u \in BodyUserIds, a \in BodyAmounts :
          BeginBuy(side, "g1", u, a)
    \/ StepPosition
    \/ StepVolume
    \/ HandleGetMarket("g1")
    \/ \E b \in Boards : LoopMove("g1", b)
    \/ Dispatchable(last) /\ AgentFails("g1")
    \/ Dispatchable(last) /\ DelayElapsed("g1")

SpecEventLoop == InitEventLoop /\ [][NextEventLoop]_vars

\* ------------------------------------------------------------------------
\* Claims
\* ------------------------------------------------------------------------

\* the market the last call was made on, before it and after it
Before == last.before[last.gameId]

After == markets[last.gameId]

IsBuyCall == last.op \in {"buyWhite", "buyBlack"}

IsBuyRequest ==
    /\ last.op \in {"POST buy-white", "POST buy-black"}
    /\ last.gameId \in DOMAIN last.before

Positive(x) == FLt(Zero(0), x)

\* c is k up to a rounding tolerance, taken as wide as a factor of two
NearK(c, k) == FLe(FDiv(k, Num(2)), c) /\ FLe(c, FMul(k, Num(2)))

\* C1: on a market created with positive liquidity, after any successful
\* buys, whitePool * blackPool equals k within the rounding tolerance and k
\* is still initialLiquidity squared.
C1_ProductStaysK ==
    \A g \in DOMAIN markets :
        /\ markets[g].k = FMul(DefaultLiquidity, DefaultLiquidity)
        /\ NearK(FMul(markets[g].whitePool, markets[g].blackPool), markets[g].k)

\* C2: a resolve call on a market that is already resolved fails with
\* "Already resolved", returns no payouts and leaves the market, its winner
\* included, as the first resolve left it.
C2_ResolveIsOneShot ==
    (last.op = "resolve" /\ Before.resolved) =>
        /\ last.err = "Already resolved"
        /\ last.payouts = NoPositions
        /\ markets = last.before
        /\ After.winner = Before.winner
        /\ After.winner \in Winners

C2_SecondResolveRefused ==
    /\ last.op = "resolve"
    /\ last.err = "Already resolved"
    /\ last.winner # After.winner
    /\ After.resolved
    /\ DOMAIN After.positions # {}

\* C3: once a market is resolved, every buyWhite and buyBlack call fails with
\* "Market is resolved", every buy request is answered 400, and neither
\* changes the pools, the positions, totalVolume, resolved or winner.
C3_NoBuyAfterResolve ==
    /\ (IsBuyCall /\ Before.resolved) =>
           last.err = "Market is resolved" /\ markets = last.before
    /\ (IsBuyRequest /\ Before.resolved) =>
           /\ last.status = 400
           /\ last.err \in {"Market is resolved", "Invalid request"}
           /\ markets = last.before

C3_BuyAfterResolveRefused ==
    /\ last.op = "buyWhite"
    /\ Positive(last.amount)
    /\ Before.resolved
    /\ last.err = "Market is resolved"
    /\ DOMAIN After.positions # {}

\* C4: in the flow a game start request begins, when the game has reached a
\* terminal status and playFullGame has returned, the market of the game is
\* resolved with the matching winner.
C4_FinishedGameResolvesMarket ==
    \A g \in DOMAIN games :
        (games[g].pc = "done" /\ isGameOver(games[g])) =>
            /\ markets[g].resolved
            /\ markets[g].winner =
                  (IF games[g].status = "white_wins" THEN "white"
                   ELSE IF games[g].status = "black_wins" THEN "black"
                   ELSE "draw")

\* C5, as stated: a buy call with amount <= 0 fails with "Amount must be
\* positive", a buy request with amount <= 0 is answered 400, and the market
\* is unchanged.
C5_NonPositiveAmountIsInvalidAmount ==
    /\ (IsBuyCall /\ FLe(last.amount, Zero(0))) =>
           last.err = "Amount must be positive" /\ markets = last.before
    /\ (IsBuyRequest /\ FLe(last.amount, Zero(0))) =>
           last.status = 400 /\ markets = last.before

\* C5, amended: a buy call with amount <= 0 leaves the market unchanged and
\* fails with "Amount must be positive" on a market that is not resolved,
\* with "Market is resolved" on a resolved one; a buy request with amount
\* <= 0 is answered 400 "Invalid request" and leaves the market unchanged.
C5_NonPositiveAmountRefused ==
    /\ (IsBuyCall /\ FLe(last.amount, Zero(0))) =>
           /\ markets = last.before
           /\ last.err = (IF Before.resolved THEN "Market is resolved"
                          ELSE "Amount must be positive")
    /\ (IsBuyRequest /\ FLe(last.amount, Zero(0))) =>
           /\ last.status = 400
           /\ last.err = "Invalid request"
           /\ markets = last.before

C5_NegativeBuyRefused ==
    /\ last.op = "buyBlack"
    /\ FLt(last.amount, Zero(0))
    /\ ~Before.resolved
    /\ last.err = "Amount must be positive"
    /\ last.userId \notin DOMAIN After.positions

\* C6: a successful resolve(outcome) returns, for each participant with a
\* position and for nobody else, whiteTokens if outcome is white,
\* blackTokens if it is black and (whiteTokens + blackTokens) / 2 on a draw,
\* of the balances held when resolve was called.
C6_PayoutRule ==
    (last.op = "resolve" /\ last.err = "") =>
        /\ DOMAIN last.payouts = DOMAIN Before.positions
        /\ \A u \in DOMAIN Before.positions :
              last.payouts[u] =
                 (IF last.winner = "white" THEN Before.positions[u].whiteTokens
                  ELSE IF last.winner = "black"
                  THEN Before.positions[u].blackTokens
                  ELSE FDiv(FAdd(Before.positions[u].whiteTokens,
                                 Before.positions[u].blackTokens), Num(2)))

C6_DrawPaidOnBothBalances ==
    /\ last.op = "resolve"
    /\ last.err = ""
    /\ last.winner = "draw"
    /\ \E u \in DOMAIN Before.positions :
          /\ Positive(Before.positions[u].whiteTokens)
          /\ Positive(Before.positions[u].blackTokens)
          /\ IsFinite(last.payouts[u])

\* the balances of one outcome, and exact sums of finite numbers, in units
\* of 2^EMin
Balances(m, side) == [u \in DOMAIN m.positions |-> m.positions[u][side]]

RECURSIVE SumUnits(_, _)
SumUnits(f, S) ==
    IF S = {} THEN 0
    ELSE The({Units(f[u]) + SumUnits(f, S \ {u}) : u \in {CHOOSE v \in S : TRUE}})

RECURSIVE SumAbsUnits(_, _)
SumAbsUnits(f, S) ==
    IF S = {} THEN 0
    ELSE The({f[u][3] * Pow2(f[u][4] - EMin) + SumAbsUnits(f, S \ {u}) :
                 u \in {CHOOSE v \in S : TRUE}})

AllFinite(f) == \A u \in DOMAIN f : IsFinite(f[u])

\* the sum of the numbers of f as a real, +Infinity ("+inf"), -Infinity
\* ("-inf") or no number at all ("nan")
SumKind(f) ==
    IF \E u \in DOMAIN f : IsNaN(f[u]) THEN "nan"
    ELSE IF (\E u \in DOMAIN f : f[u] = Inf(0)) /\ (\E u \in DOMAIN f : f[u] = Inf(1))
    THEN "nan"
    ELSE IF \E u \in DOMAIN f : f[u] = Inf(0) THEN "+inf"
    ELSE IF \E u \in DOMAIN f : f[u] = Inf(1) THEN "-inf"
    ELSE "real"

SameSum(f, h) ==
    /\ SumKind(f) = SumKind(h)
    /\ SumKind(f) # "nan"
    /\ SumKind(f) = "real" => SumUnits(f, DOMAIN f) = SumUnits(h, DOMAIN h)

\* twice the sum of p is the sum of w plus the sum of b, up to a quarter of
\* the balances (the payouts are rounded) and one unit per participant
HalfOfBoth(p, w, b) ==
    IF AllFinite(p) /\ AllFinite(w) /\ AllFinite(b)
    THEN \E d \in {2 * SumUnits(p, DOMAIN p)
                     - SumUnits(w, DOMAIN w) - SumUnits(b, DOMAIN b)} :
            \E tol \in {(SumAbsUnits(w, DOMAIN w) + SumAbsUnits(b, DOMAIN b)) \div 4
                          + Cardinality(DOMAIN p)} :
               d <= tol /\ 0 - d <= tol
    ELSE /\ SumKind(p) # "nan"
         /\ SumKind(w) # "nan"
         /\ SumKind(b) # "nan"
         /\ SumKind(p) \in {SumKind(w), SumKind(b)}

\* C7: after any buys, the payouts of resolve(white) sum to the whiteTokens
\* of all participants, those of resolve(black) to their blackTokens, and
\* those of a draw to half of both, within the rounding tolerance.
C7_SettlementConserves ==
    (last.op = "resolve" /\ last.err = "") =>
        IF last.winner = "white"
        THEN SameSum(last.payouts, Balances(Before, "whiteTokens"))
        ELSE IF last.winner = "black"
        THEN SameSum(last.payouts, Balances(Before, "blackTokens"))
        ELSE HalfOfBoth(last.payouts, Balances(Before, "whiteTokens"),
                        Balances(Before, "blackTokens"))

\* C8: createMarket for an id that already has a market fails, and the
\* market registered under the id stays the one that was there, unchanged.
C8_DuplicateCreateRejected ==
    (last.op = "createMarket" /\ last.gameId \in DOMAIN last.before) =>
        last.err # "" /\ markets = last.before

\* C9: createMarket with an initial liquidity that is not > 0 is rejected and
\* leaves in the registry no market whose pools are not > 0.
C9_NonPositiveLiquidityRejected ==
    /\ (last.op = "createMarket" /\ ~Positive(last.amount)) =>
           last.err # "" /\ markets = last.before
    /\ last.op = "createMarket" =>
           \A g \in DOMAIN markets :
              Positive(markets[g].whitePool) /\ Positive(markets[g].blackPool)

\* C10: on a market created with positive liquidity both pools stay > 0, and
\* every buy with amount > 0 takes out 0 < tokensOut < the traded pool.
C10_PoolsStayPositive ==
    /\ \A g \in DOMAIN markets :
          Positive(markets[g].whitePool) /\ Positive(markets[g].blackPool)
    /\ (IsBuyCall /\ last.err = "") =>
          /\ Positive(last.tokensOut)
          /\ FLt(last.tokensOut, IF last.op = "buyWhite" THEN Before.whitePool
                                 ELSE Before.blackPool)
\* s is 1 up to a rounding tolerance, taken as wide as a quarter
NearOne(s) ==
    /\ IsFinite(s)
    /\ Units(s) - Units(Num(1)) <= Units(Num(1)) \div 4
    /\ Units(Num(1)) - Units(s) <= Units(Num(1)) \div 4

StrictlyInside(p) == FLt(Zero(0), p) /\ FLt(p, Num(1))

\* C11: in every state of a market created with positive liquidity, before
\* and after resolution, getWhitePrice() + getBlackPrice() is 1 within the
\* rounding tolerance and each price is strictly between 0 and 1.
C11_PriceSumLaw ==
    \A g \in DOMAIN markets :
        \E w \in {getWhitePrice(markets[g])}, b \in {getBlackPrice(markets[g])} :
            /\ StrictlyInside(w)
            /\ StrictlyInside(b)
            /\ NearOne(FAdd(w, b))

\* the position of the buyer before the last call, all zero if there is none
Held ==
    IF last.userId \in DOMAIN Before.positions
    THEN Before.positions[last.userId]
    ELSE [whiteTokens |-> Zero(0), blackTokens |-> Zero(0),
          totalSpent |-> Zero(0)]

\* what a buy leaves alone: k, resolved, winner, the id and the positions of
\* the other participants
BuyFrame ==
    /\ After.k = Before.k
    /\ After.resolved = Before.resolved
    /\ After.winner = Before.winner
    /\ After.gameId = Before.gameId
    /\ DOMAIN After.positions = DOMAIN Before.positions \cup {last.userId}
    /\ \A u \in DOMAIN Before.positions \ {last.userId} :
          After.positions[u] = Before.positions[u]
    /\ \A g \in DOMAIN last.before \ {last.gameId} :
          markets[g] = last.before[g]
    /\ DOMAIN markets = DOMAIN last.before

BoughtWhite ==
    \E t \in {calculateBuyWhite(Before, last.amount).tokensOut} :
        /\ After.blackPool = FAdd(Before.blackPool, last.amount)
        /\ After.whitePool = FSub(Before.whitePool, t)
        /\ After.positions[last.userId] =
              [whiteTokens |-> FAdd(Held.whiteTokens, t),
               blackTokens |-> Held.blackTokens,
               totalSpent |-> FAdd(Held.totalSpent, last.amount)]
        /\ After.totalVolume = FAdd(Before.totalVolume, last.amount)
        /\ last.tokensOut = t
        /\ last.newPrice = FDiv(After.blackPool,
                                FAdd(After.whitePool, After.blackPool))
        /\ BuyFrame

BoughtBlack ==
    \E t \in {calculateBuyBlack(Before, last.amount).tokensOut} :
        /\ After.whitePool = FAdd(Before.whitePool, last.amount)
        /\ After.blackPool = FSub(Before.blackPool, t)
        /\ After.positions[last.userId] =
              [whiteTokens |-> Held.whiteTokens,
               blackTokens |-> FAdd(Held.blackTokens, t),
               totalSpent |-> FAdd(Held.totalSpent, last.amount)]
        /\ After.totalVolume = FAdd(Before.totalVolume, last.amount)
        /\ last.tokensOut = t
        /\ last.newPrice = FDiv(After.whitePool,
                                FAdd(After.whitePool, After.blackPool))
        /\ BuyFrame

\* C12: a successful buy of an outcome by a participant, by a call or by a
\* request, adds the amount to the other pool, takes the tokensOut of the
\* quote on the state before the buy out of the traded pool, adds it to the
\* participant's balance of the outcome, adds the amount to totalSpent and
\* to totalVolume, and returns that tokensOut and the price of the outcome
\* on the pools after the buy.
C12_BuyCommitsTheQuote ==
    /\ ((last.op = "buyWhite" /\ last.err = "")
          \/ (last.op = "POST buy-white" /\ last.status = 200)) => BoughtWhite
    /\ ((last.op = "buyBlack" /\ last.err = "")
          \/ (last.op = "POST buy-black" /\ last.status = 200)) => BoughtBlack

C12_SecondBuyCommitted ==
    /\ last.op = "buyWhite"
    /\ last.err = ""
    /\ last.userId \in DOMAIN Before.positions
    /\ DOMAIN Before.positions # {last.userId}
    /\ IsFinite(last.tokensOut)
    /\ Positive(last.tokensOut)
    /\ Positive(Before.totalVolume)
\* C13: under any interleaving of buy requests, read requests and the game
\* loop on the same markets, a read request never sees a buy that has
\* updated the pools but not yet the position and totalVolume, and whenever
\* no handler is running the registry is the one that the requests leave
\* when applied one after the other, each in one piece.
C13_HandlersAreAtomic ==
    /\ (last.op = "GET market" /\ last.status = 200) =>
           last.before[last.gameId] = last.serial[last.gameId]
    /\ last.pc = "done" => markets = last.serial

C13_ReadAfterBuyDuringGame ==
    /\ last.op = "GET market"
    /\ last.status = 200
    /\ DOMAIN Before.positions # {}
    /\ Positive(Before.totalVolume)
    /\ games[last.gameId].moves > 0
IsBuy(call) ==
    \/ call.op \in {"buyWhite", "buyBlack"} /\ call.err = ""
    \/ call.op \in {"POST buy-white", "POST buy-black"} /\ call.status = 200

\* C14: getPosition, called or requested, changes nothing of any market and
\* returns the participant's position, or no position (all zero in the
\* reply to the request) for one who has none; an entry of positions appears
\* only in a successful buy of that participant, and a successful resolve
\* returns payouts for exactly the entries, so none for a participant who
\* has only read.
C14_GetPositionIsPure ==
    [][/\ last'.op = "getPosition" =>
             /\ markets' = markets
             /\ last'.value =
                   (IF last'.userId \in DOMAIN markets[last'.gameId].positions
                    THEN <<markets[last'.gameId].positions[last'.userId]>>
                    ELSE <<>>)
       /\ last'.op = "GET position" =>
             /\ markets' = markets
             /\ last'.status = 200 =>
                   last'.value =
                      (IF last'.userId \in DOMAIN markets[last'.gameId].positions
                       THEN <<markets[last'.gameId].positions[last'.userId]>>
                       ELSE <<[whiteTokens |-> Zero(0), blackTokens |-> Zero(0),
                               totalSpent |-> Zero(0)]>>)
       /\ \A g \in DOMAIN markets \cap DOMAIN markets' :
             \A u \in DOMAIN markets'[g].positions \ DOMAIN markets[g].positions :
                IsBuy(last') /\ last'.gameId = g /\ last'.userId = u
       /\ (last'.op = "resolve" /\ last'.err = "") =>
             DOMAIN last'.payouts = DOMAIN markets[last'.gameId].positions
      ]_vars

C14_NoPositionRead ==
    /\ last.op = "getPosition"
    /\ last.value = <<>>
    /\ DOMAIN After.positions # {}
    /\ last.userId \notin DOMAIN After.positions
    /\ ~After.resolved

\* C15: a call of getWhitePrice, getBlackPrice, calculateBuyWhite,
\* calculateBuyBlack, getOrderBook or getState, with any argument, leaves
\* the pools, k, the positions, totalVolume, resolved and winner of the
\* market, and the registry, as they were.
C15_ReadsChangeNothing ==
    last.op \in ReadNames \cup {"getOrderBook"} => markets = last.before

C15_QuoteOnTradedMarket ==
    /\ last.op = "calculateBuyWhite"
    /\ Positive(last.amount)
    /\ DOMAIN After.positions # {}
    /\ Positive(last.value.tokensOut)
    /\ IsFinite(last.value.tokensOut)
\* the amounts the quotes are compared at
QuoteAmounts == {Num(1), Num(2), Num(3)}

\* C16: in every state of a market created with positive liquidity, for
\* amounts 0 < x <= y the avgPrice of calculateBuyWhite(x) is <= the
\* avgPrice of calculateBuyWhite(y), and likewise for calculateBuyBlack.
C16_MonotonicImpact ==
    \A g \in DOMAIN markets :
        \A x \in QuoteAmounts, y \in QuoteAmounts :
            (Positive(x) /\ FLe(x, y)) =>
                /\ FLe(calculateBuyWhite(markets[g], x).avgPrice,
                       calculateBuyWhite(markets[g], y).avgPrice)
                /\ FLe(calculateBuyBlack(markets[g], x).avgPrice,
                       calculateBuyBlack(markets[g], y).avgPrice)

\* the levels of a list are depth many, level i has size i * stepSize, the
\* sizes increase strictly and the prices do not decrease
OrderedLevels(levels, depth, stepSize) ==
    /\ DOMAIN levels = 1..depth
    /\ \A i \in 1..depth : levels[i].size = FMul(stepSize, Num(i))
    /\ \A i \in 1..(depth - 1) :
          /\ FLt(levels[i].size, levels[i + 1].size)
          /\ FLe(levels[i].price, levels[i + 1].price)

\* C17: in every state of a market created with positive liquidity,
\* getOrderBook(depth, stepSize) with depth >= 1 and stepSize > 0 returns
\* four lists of depth levels each, level i of size i * stepSize, with
\* strictly increasing sizes and non-decreasing prices along every list.
C17_OrderBookLevelsOrdered ==
    \A g \in DOMAIN markets :
        \A depth \in 1..MaxDepth, stepSize \in StepSizes :
            \E book \in {getOrderBook(markets[g], depth, stepSize)} :
                /\ OrderedLevels(book.whiteBids, depth, stepSize)
                /\ OrderedLevels(book.whiteAsks, depth, stepSize)
                /\ OrderedLevels(book.blackBids, depth, stepSize)
                /\ OrderedLevels(book.blackAsks, depth, stepSize)

\* C18: on a market created with positive liquidity every successful
\* buyWhite strictly increases the white price and strictly decreases the
\* black price, every successful buyBlack does the reverse, and the
\* priceImpact of the quote for the amount is strictly positive.
C18_BuyMovesThePrice ==
    /\ (last.op = "buyWhite" /\ last.err = "") =>
          /\ FLt(getWhitePrice(Before), getWhitePrice(After))
          /\ FLt(getBlackPrice(After), getBlackPrice(Before))
          /\ Positive(calculateBuyWhite(Before, last.amount).priceImpact)
    /\ (last.op = "buyBlack" /\ last.err = "") =>
          /\ FLt(getBlackPrice(Before), getBlackPrice(After))
          /\ FLt(getWhitePrice(After), getWhitePrice(Before))
          /\ Positive(calculateBuyBlack(Before, last.amount).priceImpact)
Half == FDiv(Num(1), Num(2))

\* C19: a market just created with a positive initial liquidity, 1000 or
\* any other, has both prices exactly 0.5.
C19_FreshMarketAtHalf ==
    (last.op = "createMarket" /\ Positive(last.amount)) =>
        getWhitePrice(After) = Half /\ getBlackPrice(After) = Half

\* C20: a buy or a resolve on the market of one id, and the creation of a
\* market for another id, leave every other registered market registered
\* and its pools, k, positions, totalVolume, resolved and winner unchanged.
C20_MarketsAreIndependent ==
    last.op \in {"createMarket", "buyWhite", "buyBlack", "resolve"} =>
        \A g \in DOMAIN last.before \ {last.gameId} :
            g \in DOMAIN markets /\ markets[g] = last.before[g]

C20_BuyBesideTradedMarket ==
    /\ last.op = "buyWhite"
    /\ last.err = ""
    /\ After # Before
    /\ \E g \in DOMAIN markets \ {last.gameId} :
          /\ DOMAIN markets[g].positions # {}
          /\ markets[g] = last.before[g]
NonNegative(x) == FLe(Zero(0), x)

\* the numbers of a position that only grow
PositionFields == {"whiteTokens", "blackTokens", "totalSpent"}

\* C21: on a market created with positive liquidity, after buys of amounts
\* > 0 and across resolve, totalVolume and every participant's whiteTokens,
\* blackTokens and totalSpent are >= 0 and not below what they were in the
\* state before.
C21_BalancesNeverDecrease ==
    \A g \in DOMAIN markets :
        /\ NonNegative(markets[g].totalVolume)
        /\ \A u \in DOMAIN markets[g].positions, f \in PositionFields :
              NonNegative(markets[g].positions[u][f])
        /\ g \in DOMAIN last.before =>
              /\ FLe(last.before[g].totalVolume, markets[g].totalVolume)
              /\ \A u \in DOMAIN last.before[g].positions, f \in PositionFields :
                    /\ u \in DOMAIN markets[g].positions
                    /\ FLe(last.before[g].positions[u][f],
                           markets[g].positions[u][f])

\* C23: when playFullGame has returned on a game with a terminal status,
\* the onMove callback has been called at least once with a state of that
\* status.
C23_ListenerSeesTheEnd ==
    \A g \in DOMAIN games :
        (games[g].pc = "done" /\ isGameOver(games[g])) =>
            games[g].status \in games[g].seen

\* C28: in every state of a market created with positive liquidity, after
\* buys of amounts > 0, totalVolume equals the sum of the totalSpent of all
\* positions of the market.
C28_VolumeIsSumOfSpent ==
    \A g \in DOMAIN markets :
        SameSum([x \in {"totalVolume"} |-> markets[g].totalVolume],
                Balances(markets[g], "totalSpent"))

\* the payouts resolve(winner) would return on the positions of m
PayoutsOf(m, winner) ==
    [u \in DOMAIN m.positions |-> Payout(m.positions[u], winner)]

\* C30: for a market created with liquidity L > 0, after any buys of amounts
\* > 0 and for each of the three outcomes, the sum of the payouts resolve
\* would return is strictly less than L + totalVolume.
C30_BoundedLoss ==
    \A g \in DOMAIN markets, w \in Winners :
        \E p \in {PayoutsOf(markets[g], w)} :
            /\ SumKind(p) = "real"
            /\ ~IsNaN(markets[g].totalVolume)
            /\ IsFinite(markets[g].totalVolume) =>
                  SumUnits(p, DOMAIN p)
                     < Units(DefaultLiquidity) + Units(markets[g].totalVolume)
LookupRequests ==
    {"GET market", "GET position", "POST buy-white", "POST buy-black"}

\* C22: the lookup of an id that has no market returns not found (getMarket
\* returns undefined; the market, position and buy requests are answered
\* 404 "Market not found"), creates no market and changes no market.
C22_UnknownIdIsNotFound ==
    (last.op \in LookupRequests \cup {"getMarket"}
        /\ last.gameId \notin DOMAIN last.before) =>
        /\ markets = last.before
        /\ last.op = "getMarket" => last.value = <<>>
        /\ last.op \in LookupRequests =>
              last.status = 404 /\ last.err = "Market not found"

C22_UnknownIdBesideTradedMarket ==
    /\ last.op = "POST buy-white"
    /\ last.status = 404
    /\ last.gameId \notin DOMAIN markets
    /\ \E g \in DOMAIN markets : DOMAIN markets[g].positions # {}
HasReturned(g) == g \in DOMAIN games /\ games[g].pc = "done"

\* C24: when every agent call returns and the game is finite, playFullGame
\* eventually returns, and when it has returned the game has a terminal
\* status and endedAt is set.
C24_PlayFullGameReturns ==
    /\ \A g \in GameIds : (g \in DOMAIN games) ~> HasReturned(g)
    /\ [](\A g \in GameIds :
             HasReturned(g) => isGameOver(games[g]) /\ games[g].endedAt)

C24_ReturnedAfterLastMove ==
    /\ HasReturned("g1")
    /\ games["g1"].moves = MaxMoves
    /\ games["g1"].status = "draw"
    /\ HasReturned("g2")
    /\ games["g2"].status = "white_wins"
\* the answer without the blanks around it, in lower case
Normalised == toLowerCase(trim(last.answer))

\* the indexes of the legal moves that occur in the normalised answer
Contained ==
    {i \in DOMAIN last.legalMoves : includes(Normalised, last.legalMoves[i])}

\* C25: for a non-empty list of legal moves and any text of the external
\* model, getAgentMove returns a move of the list: the normalised answer if
\* it is legal, else the first legal move that occurs in it, else the first
\* move of the list.
C25_AgentMoveIsLegal ==
    last.op = "getAgentMove" =>
        /\ \E i \in DOMAIN last.legalMoves : last.move = last.legalMoves[i]
        /\ last.move =
              (IF \E i \in DOMAIN last.legalMoves :
                     last.legalMoves[i] = Normalised
               THEN Normalised
               ELSE IF Contained # {}
               THEN last.legalMoves[CHOOSE i \in Contained :
                                       \A j \in Contained : i <= j]
               ELSE last.legalMoves[1])

C25_SecondMoveFoundInAnswer ==
    /\ last.op = "getAgentMove"
    /\ Len(last.legalMoves) = 2
    /\ last.move = last.legalMoves[2]
    /\ last.move # Normalised
    /\ last.answer # Normalised
\* the calls of playNextMove that stand at their await of the agent
Awaiting(game) == {c \in Calls : game.calls[c] = "awaiting"}

\* call c is made in this step
IsCalled(c) ==
    /\ games["g1"].calls[c] # "awaiting"
    /\ games'["g1"].calls[c] # games["g1"].calls[c]

\* C26: of the concurrent calls of playNextMove on a game at most one
\* stands between asking the agent and applying its move; isProcessing is
\* true exactly while one does, also after the agent's error; and a call
\* made while another one is in progress returns without asking the agent
\* and leaves the game as it is.
C26_PlayNextMoveNotReentrant ==
    /\ [](/\ Cardinality(Awaiting(games["g1"])) <= 1
          /\ games["g1"].isProcessing <=> Awaiting(games["g1"]) # {})
    /\ [][\A c \in Calls :
             (IsCalled(c) /\ Awaiting(games["g1"]) # {}) =>
                 games' = [games EXCEPT !["g1"].calls[c] = "busy"]]_vars

C26_CallsRefusedAndFailed ==
    /\ games["g1"].calls = ("c1" :> "awaiting" @@ "c2" :> "busy"
                                @@ "c3" :> "threw")
    /\ games["g1"].isProcessing
    /\ games["g1"].moves = 1

\* C27: a call of playNextMove on a game whose status is not playing
\* returns without asking the agent or calling onMove and changes nothing;
\* so no step of any call of playNextMove changes the status, the moves or
\* endedAt of a game that is over.
C27_NoMoveUnlessPlaying ==
    /\ [][\A c \in Calls :
             (IsCalled(c) /\ games["g1"].status # "playing") =>
                 games' = [games EXCEPT !["g1"].calls[c] = "skipped"]]_vars
    /\ [][(isGameOver(games["g1"])
             /\ games'["g1"].calls # games["g1"].calls) =>
                 /\ games'["g1"].status = games["g1"].status
                 /\ games'["g1"].moves = games["g1"].moves
                 /\ games'["g1"].endedAt = games["g1"].endedAt
                 /\ games'["g1"].seen = games["g1"].seen
                 /\ games'["g1"].board = games["g1"].board]_vars

C27_CalledAfterTheEnd ==
    /\ games["g1"].status = "draw"
    /\ games["g1"].moves = MaxMoves
    /\ games["g1"].calls = ("c1" :> "skipped" @@ "c2" :> "skipped"
                                @@ "c3" :> "returned")
\* the pool of one outcome together with the balances of that outcome
PoolAndTokens(m, pool, side) == ("pool" :> m[pool]) @@ Balances(m, side)

\* the numbers of f sum to DefaultLiquidity plus paid (plus Infinity when
\* inf), up to a quarter of the terms (the pools and the balances are
\* rounded) and one unit per term
SumsToPaid(f, paid, inf) ==
    IF inf THEN SumKind(f) = "+inf"
    ELSE /\ SumKind(f) = "real"
         /\ \E d \in {SumUnits(f, DOMAIN f) - Units(DefaultLiquidity) - paid} :
               \E tol \in {(SumAbsUnits(f, DOMAIN f) + Units(DefaultLiquidity)
                               + paid) \div 4 + Cardinality(DOMAIN f)} :
                  d <= tol /\ 0 - d <= tol

\* C29: in every reachable state of a market created with liquidity L,
\* whitePool plus the whiteTokens of all positions is L plus the amounts
\* paid for black, and blackPool plus the blackTokens of all positions is L
\* plus the amounts paid for white, within rounding tolerance.
C29_PoolAccounting ==
    /\ SumsToPaid(PoolAndTokens(markets["g1"], "whitePool", "whiteTokens"),
                  last.paidBlack, last.infBlack)
    /\ SumsToPaid(PoolAndTokens(markets["g1"], "blackPool", "blackTokens"),
                  last.paidWhite, last.infWhite)
\* C31: in every state of every market, resolved is true exactly when
\* winner is not null; winner is null when the market is created, stays null
\* until the first resolve that returns, is the argument of that resolve
\* from then on, and no other call changes it.
C31_WinnerFollowsResolve ==
    /\ [](\A g \in DOMAIN markets :
             /\ markets[g].resolved <=> markets[g].winner # "null"
             /\ markets[g].winner \in Winners \cup {"null"})
    /\ [][\A g \in DOMAIN markets' :
             IF last'.op = "createMarket" /\ last'.gameId = g
             THEN markets'[g].winner = "null"
             ELSE IF last'.op = "resolve" /\ last'.gameId = g /\ last'.err = ""
             THEN /\ markets[g].winner = "null"
                  /\ markets'[g].winner = last'.winner
             ELSE /\ g \in DOMAIN markets
                  /\ markets'[g].winner = markets[g].winner]_vars

C31_BuyRefusedUnderItsWinner ==
    /\ IsBuyCall
    /\ last.err = "Market is resolved"
    /\ Before.winner = "black"
    /\ After.winner = "black"
    /\ After.resolved
\* C32: a resolve that returns changes resolved and winner and nothing
\* else: the pools, k, totalVolume and the whiteTokens, blackTokens and
\* totalSpent of every position are as before; and the payouts it returns
\* have one entry for each participant of whom a buy returned and none for
\* anybody else.
C32_ResolveSettlesOnly ==
    (last.op = "resolve" /\ last.err = "") =>
        /\ After.whitePool = Before.whitePool
        /\ After.blackPool = Before.blackPool
        /\ After.k = Before.k
        /\ After.totalVolume = Before.totalVolume
        /\ After.gameId = Before.gameId
        /\ After.positions = Before.positions
        /\ DOMAIN markets = DOMAIN last.before
        /\ After.resolved /\ ~Before.resolved
        /\ After.winner = last.winner
        /\ DOMAIN last.payouts = last.buyers

C32_LoserPaidZeroRefusedUnpaid ==
    /\ last.op = "resolve"
    /\ last.err = ""
    /\ last.winner = "white"
    /\ last.buyers = {"u1"}
    /\ last.refused = {"u2"}
    /\ IsZero(last.payouts["u1"])
    /\ Positive(After.positions["u1"].blackTokens)
=============================================================================
